---- MODULE Spec2Model ----
(***************************************************************************)
(* Model of src/speaking_practicing.py: the session controller of the      *)
(* spoken-English practice bot (class SeamlessSpokenEnglishBot).           *)
(*                                                                         *)
(* Python strings are modelled as sequences of one-character strings, so   *)
(* that lower(), split(), "in" (substring) and concatenation are computed  *)
(* as the code computes them.                                              *)
(***************************************************************************)
EXTENDS Integers, Sequences, FiniteSets, TLC

(***************************************************************************)
(* Bounds of the model.                                                    *)
(***************************************************************************)
\* number of questions kept of each practice_topics list (5 or 8 in the source)
NumQuestions == 2
\* practice sessions started from main_menu during one run of the program
MaxSessions == 1
\* last value of the wall clock; time stops advancing there
MaxTime == 2
\* largest time one blocking call (a capture, speech playback) may take
MaxDelay == 1
\* tokens concatenated into one input of the command classifier
MaxTokens == 3
\* longest text handed to split_text_for_tts
MaxTextLen == 4
\* largest max_length handed to split_text_for_tts (200 in the source)
MaxCeiling == 3

(***************************************************************************)
(* String literals of the source, as character sequences.                  *)
(***************************************************************************)
W_next == <<"n", "e", "x", "t">>
W_continue == <<"c", "o", "n", "t", "i", "n", "u", "e">>
W_go == <<"g", "o">>
W_skip == <<"s", "k", "i", "p">>
W_repeat == <<"r", "e", "p", "e", "a", "t">>
W_again == <<"a", "g", "a", "i", "n">>
W_retry == <<"r", "e", "t", "r", "y">>
W_redo == <<"r", "e", "d", "o">>
W_enter == <<"e", "n", "t", "e", "r">>
W_okay == <<"o", "k", "a", "y">>
W_yes == <<"y", "e", "s">>
W_ready == <<"r", "e", "a", "d", "y">>
P_next_question == <<"n", "e", "x", "t", " ", "q", "u", "e", "s", "t", "i", "o", "n">>
P_repeat_question == <<"r", "e", "p", "e", "a", "t", " ", "q", "u", "e", "s", "t", "i", "o", "n">>
P_finish == <<"f", "i", "n", "i", "s", "h">>
P_stop == <<"s", "t", "o", "p">>
P_quit == <<"q", "u", "i", "t">>
P_done == <<"d", "o", "n", "e">>

\* line 107: ['next', 'continue', 'go', 'skip']
NextWords == {W_next, W_continue, W_go, W_skip}
\* line 109: ['repeat', 'again', 'retry', 'redo']
RepeatWords == {W_repeat, W_again, W_retry, W_redo}
\* line 111: ['enter', 'okay', 'yes', 'ready']
EnterWords == {W_enter, W_okay, W_yes, W_ready}
\* line 490: ['next question', 'next', 'skip']
SkipPhrases == {P_next_question, W_next, W_skip}
\* line 493: ['finish', 'stop', 'quit', 'done']
FinishPhrases == {P_finish, P_stop, P_quit, P_done}
\* line 496: ['repeat question', 'repeat', 'again']
RepeatPhrases == {P_repeat_question, W_repeat, W_again}
\* line 545: ['next question', 'next', 'skip', 'finish', 'stop', 'quit', 'done']
MenuStopPhrases == {P_next_question, W_next, W_skip, P_finish, P_stop, P_quit, P_done}

(***************************************************************************)
(* Python string operations.                                               *)
(***************************************************************************)
UpperChars == <<"A", "B", "C", "D", "E", "F", "G", "H", "I", "J", "K", "L", "M",
                "N", "O", "P", "Q", "R", "S", "T", "U", "V", "W", "X", "Y", "Z">>
LowerChars == <<"a", "b", "c", "d", "e", "f", "g", "h", "i", "j", "k", "l", "m",
                "n", "o", "p", "q", "r", "s", "t", "u", "v", "w", "x", "y", "z">>

\* str.lower() on one character
LowerChar(c) ==
    IF \E i \in DOMAIN UpperChars : UpperChars[i] = c
    THEN LowerChars[CHOOSE i \in DOMAIN UpperChars : UpperChars[i] = c]
    ELSE c

\* str.lower()
Lower(s) == [i \in 1..Len(s) |-> LowerChar(s[i])]

\* "w in s" for strings: w occurs in s as a contiguous substring
Contains(s, w) ==
    \E i \in 0..(Len(s) - Len(w)) : SubSeq(s, i + 1, i + Len(w)) = w

\* any(word in s for word in words)
ContainsAny(s, words) == \E w \in words : Contains(s, w)

\* len(s.split()): the number of maximal runs of non-blank characters
WordCount(s) ==
    Cardinality({i \in 1..Len(s) : s[i] # " " /\ (i = 1 \/ s[i - 1] = " ")})

\* s.startswith(c) for a one-character prefix
StartsWith(s, c) == Len(s) >= 1 /\ s[1] = c

\* str.strip(): leading and trailing blanks removed
RECURSIVE Strip(_)
Strip(s) ==
    IF s = <<>> THEN s
    ELSE IF s[1] = " " THEN Strip(Tail(s))
    ELSE IF s[Len(s)] = " " THEN Strip(SubSeq(s, 1, Len(s) - 1))
    ELSE s

(***************************************************************************)
(* listen_for_command, lines 104-115: the keyword classification of the    *)
(* recognised command text.                                                *)
(***************************************************************************)
ClassifyWrongOrder(heard_text) ==
    LET command_l == Lower(heard_text) IN
    IF ContainsAny(command_l, RepeatWords) THEN "repeat"
    ELSE IF ContainsAny(command_l, NextWords) THEN "next"
    ELSE IF ContainsAny(command_l, EnterWords) THEN "enter"
    ELSE "enter"

ClassifyNoDefault(heard_text) ==
    LET command_l == Lower(heard_text) IN
    IF ContainsAny(command_l, NextWords) THEN "next"
    ELSE IF ContainsAny(command_l, RepeatWords) THEN "repeat"
    ELSE IF ContainsAny(command_l, EnterWords) THEN "enter"
    ELSE "unknown"

ClassifyCommand(heard_text) ==
    LET command_l == Lower(heard_text) IN
    IF ContainsAny(command_l, NextWords) THEN "next"
    ELSE IF ContainsAny(command_l, RepeatWords) THEN "repeat"
    ELSE IF ContainsAny(command_l, EnterWords) THEN "enter"
    ELSE "enter"

\* line 117-119: UnknownValueError, RequestError and WaitTimeoutError are
\* caught together and 'enter' is returned
CommandOnFailureRepeat == "repeat"

CommandOnFailure == "enter"



(***************************************************************************)
(* Inputs: what the external services and the keyboard may deliver.        *)
(***************************************************************************)
T_next_question_please == <<"n", "e", "x", "t", " ", "q", "u", "e", "s", "t", "i", "o", "n", " ", "p", "l", "e", "a", "s", "e">>
T_can_you_repeat_that == <<"c", "a", "n", " ", "y", "o", "u", " ", "r", "e", "p", "e", "a", "t", " ", "t", "h", "a", "t">>
T_hmm == <<"h", "m", "m">>
T_Go_Again == <<"G", "o", " ", "A", "g", "a", "i", "n">>
T_Finish == <<"F", "i", "n", "i", "s", "h">>
T_question == <<"q", "u", "e", "s", "t", "i", "o", "n">>
T_Say_more == <<" ", "S", "a", "y", " ", "m", "o", "r", "e">>

\* transcripts recognize_google may return for a command capture (line 104)
CommandTexts == {T_next_question_please, T_can_you_repeat_that, T_hmm, T_Go_Again}
\* transcripts recognize_google may return for an answer capture (line 366)
RecognizedTexts == {T_next_question_please, W_yes, W_repeat}
\* transcripts of the extension capture (line 374)
ExtensionTexts == {T_question}
\* what the learner may type at the fallback prompts (lines 386, 390, 399, 401)
TypedTexts == {<<>>, W_skip, T_Finish}
\* what the learner may type at the "say more or continue" prompt (line 370)
ContinueChoices == {T_Say_more, W_continue}
\* time one blocking call may take
Delays == 0..MaxDelay

\* inputs of the command classifier: every concatenation of at most n tokens
ClassifyTokens ==
    {W_go, W_yes, W_redo, W_again, T_hmm, <<" ">>, <<"N", "e">>, <<"x", "t">>}

RECURSIVE Concats(_)
Concats(n) ==
    IF n = 0 THEN {<<>>}
    ELSE LET shorter == Concats(n - 1)
         IN  shorter \cup {s \o t : s \in shorter, t \in ClassifyTokens}

ClassifyInputs == Concats(MaxTokens) \cup CommandTexts

(***************************************************************************)
(* __init__, lines 48-85: practice_topics.  Questions are identified by    *)
(* numbers; each list keeps its first NumQuestions entries.                *)
(***************************************************************************)
practice_topics(difficulty, category) ==
    IF difficulty = "beginner"
    THEN [i \in 1..NumQuestions |-> (IF category = "personal" THEN 100 ELSE 200) + i]
    ELSE [i \in 1..NumQuestions |-> (IF difficulty = "intermediate" THEN 300 ELSE 400) + i]

(***************************************************************************)
(* get_ai_feedback, lines 419-434.  A response of ollama.chat is one of:   *)
(* a mapping with message.content, a mapping without 'message', a falsy    *)
(* value, a mapping whose message has no 'content' (KeyError inside the    *)
(* try), or an exception raised by the call.                               *)
(***************************************************************************)
FB_default == "Great job speaking English! Keep practicing."
FB_error == "Good effort! Let's continue practicing. (Error: ...)"
ChatResponses ==
    {[kind |-> "content", content |-> "Nice answer."],
     [kind |-> "content", content |-> ""],
     [kind |-> "no_message", content |-> ""],
     [kind |-> "falsy", content |-> ""],
     [kind |-> "no_content", content |-> ""],
     [kind |-> "raise", content |-> ""]}

get_ai_feedback(response) ==
    IF response.kind \in {"raise", "no_content"} THEN FB_error
    ELSE IF response.kind = "content" THEN response.content
    ELSE FB_default

(***************************************************************************)
(* practice_conversation: the decisions of the question loop.              *)
(***************************************************************************)
\* lines 486-499: how the first answer to a question is treated
AnswerClassBySubstring(response) ==
    IF response = <<>> THEN "empty"
    ELSE IF ContainsAny(Lower(response), SkipPhrases) THEN "skip"
    ELSE IF ContainsAny(Lower(response), FinishPhrases) THEN "finish"
    ELSE IF ContainsAny(Lower(response), RepeatPhrases) THEN "repeat"
    ELSE "answer"

AnswerClass(response) ==
    IF response = <<>> THEN "empty"
    ELSE IF Lower(response) \in SkipPhrases THEN "skip"
    ELSE IF Lower(response) \in FinishPhrases THEN "finish"
    ELSE IF Lower(response) \in RepeatPhrases THEN "repeat"
    ELSE "answer"

\* lines 487, 492, 495, 499, 511: where control goes after the first answer.
\* 'continue' (empty, skip, repeat) returns to the head of the for loop,
\* 'break' (finish) leaves it, anything else goes on to the feedback.
AfterAnswerSkipGetsFeedback(cls) ==
    IF cls \in {"empty", "repeat"} THEN "for"
    ELSE IF cls = "finish" THEN "stats"
    ELSE "feedback"

AfterAnswer(cls) ==
    IF cls \in {"empty", "skip", "repeat"} THEN "for"
    ELSE IF cls = "finish" THEN "stats"
    ELSE "feedback"

\* line 466: the for loop takes the item after the i items it has taken
NextItem(i) == i + 1

\* line 467: question_count += 1
NextCountStuck(c) == IF c = 0 THEN 1 ELSE c

NextCount(c) == c + 1

\* line 484: self.speaking_time += speaking_duration
AccumulateTwice(total, d) == total + d + d

Accumulate(total, d) == total + d

\* line 483: speaking_duration = time.time() - speaking_start
Elapsed(t, start) == t - start

\* line 521: if question_count < len(questions)
MenuNeededAtLast(count, n) == count <= n

MenuNeeded(count, n) == count < n

\* lines 530, 569, 573: what the post-feedback menu does with a command
MenuAfter(cmd) ==
    IF cmd = "repeat" THEN "repeat"
    ELSE IF cmd \in {"next", "enter"} THEN "leave"
    ELSE "reprompt"

\* line 545: whether the new answer of a repeat is processed
ProcessNewUnlessSkip(response) ==
    response # <<>> /\ ~(Lower(response) \in SkipPhrases)

ProcessNew(response) ==
    response # <<>> /\ ~(Lower(response) \in MenuStopPhrases)

\* lines 543-548: new_speaking_duration = time.time() - speaking_start is
\* shown (548); self.speaking_time is not assigned in the menu
AccumulateNewAdded(total, d) == total + d

AccumulateNew(total, d) == total

\* lines 562-563: the new answer and its feedback are appended to
\* self.conversation_history.  The program never reads the history, so an
\* entry's content is kept as the name of the variable it was taken from and
\* the question it belongs to, not as its text.
AppendAttemptAnswerOnly(history, q) ==
    Append(history, [role |-> "user", content |-> <<"new_response", q>>])

AppendAttempt(history, q) ==
    history \o <<[role |-> "user", content |-> <<"new_response", q>>],
                 [role |-> "assistant", content |-> <<"new_feedback", q>>]>>

(***************************************************************************)
(* listen_for_speech: the retry policy.                                    *)
(***************************************************************************)
\* line 353
max_retries_three == 2 + 1

max_retries == 2

\* line 356: while retry_count < max_retries
LoopContinues(rc) == rc < max_retries

\* lines 380-386 and 393-399: after UnknownValueError or WaitTimeoutError,
\* with rc the incremented retry_count: try again, or type instead
AfterFailureReturns(rc) == "done"

AfterFailure(rc) == IF rc < max_retries THEN "loop" ELSE "type"

\* lines 388-390: after RequestError: type instead, whatever retry_count is
AfterRequestErrorRetry(rc) == IF rc + 1 < max_retries THEN "loop" ELSE "type"

AfterRequestError(rc) == "type"

\* line 368: if len(text.split()) < 2
IsShort(t) == WordCount(t) < 2

\* lines 370-371: continue_choice = input(...).strip().lower();
\* continue_choice.startswith('s')
SaysMore(choice) == StartsWith(Lower(Strip(choice)), "s")

\* line 375: text = text + " " + more_text
Extend(t, more) == t \o <<" ">> \o more

(***************************************************************************)
(* State.                                                                  *)
(***************************************************************************)
VARIABLES
    pc,                   \* where main / main_menu / practice_conversation stands
    SPEECH_AVAILABLE,     \* lines 13-20
    now,                  \* the wall clock (time.time(), datetime.now())
    sessions,             \* practice sessions started so far
    mic_held,             \* self.microphone is entered ("with ... as source")
    session_start,        \* self.session_start
    speaking_time,        \* self.speaking_time
    conversation_history, \* self.conversation_history
    use_online_tts,       \* self.use_online_tts
    questions,            \* practice_conversation: questions
    q_iter,               \* items the for loop of line 466 has taken
    question_count,       \* practice_conversation: question_count
    question,             \* practice_conversation: question
    speaking_start,       \* practice_conversation: speaking_start
    user_response,        \* practice_conversation: user_response
    feedback,             \* practice_conversation: feedback / new_feedback, while spoken
    new_response,         \* practice_conversation: new_response, while it is read
    cmd_pc,               \* where listen_for_command stands
    heard,                \* listen_for_command: what recognize_google returned (line 104)
    command,              \* the value listen_for_command returned
    cmd_error,            \* the exception this listen_for_command call caught
    lfs_pc,               \* where listen_for_speech stands
    retry_count,          \* listen_for_speech: retry_count
    text,                 \* listen_for_speech: text
    lfs_result,           \* the value listen_for_speech returned
    lfs_attempts,         \* this call: captures started inside the loop (line 363)
    lfs_fails,            \* this call: UnknownValueError and WaitTimeoutError caught
    lfs_ext,              \* this call: extension captures started (line 373)
    lfs_service,          \* this call: a RequestError was caught
    lfs_typed,            \* this call: the answer was typed
    presented,            \* the questions presented in this session, in order
    last_answer,          \* the last first answer: its question index and class
    menu_exit,            \* how and at which index the last menu ended
    stats_shown,          \* times show_practice_stats has run in this session
    stats_divisor,        \* show_practice_stats: the duration line 654 divided by, -1 if none
    tts_pc,               \* where a call of split_text_for_tts stands
    tts_text,             \* split_text_for_tts: text
    max_length,           \* split_text_for_tts: max_length
    chunks                \* the value split_text_for_tts returned

botVars == <<session_start, speaking_time, conversation_history, use_online_tts>>
loopVars == <<questions, q_iter, question_count, question, speaking_start,
              user_response, feedback, new_response>>
cmdVars == <<cmd_pc, heard, command, cmd_error>>
lfsVars == <<lfs_pc, retry_count, text, lfs_result, lfs_attempts, lfs_fails,
             lfs_ext, lfs_service, lfs_typed>>
histVars == <<presented, last_answer, menu_exit, stats_shown, stats_divisor>>
ttsVars == <<tts_pc, tts_text, max_length, chunks>>
vars == <<pc, SPEECH_AVAILABLE, now, sessions, mic_held, botVars, loopVars,
          cmdVars, lfsVars, histVars, ttsVars>>

NoMenuExit == [by |-> "none", q |-> 0]
NoAnswer == [q |-> 0, cls |-> "none"]

\* everything but the control positions and the import result
InitCommon ==
    /\ now = 0
    /\ sessions = 0
    /\ mic_held = FALSE
    /\ session_start = 0
    /\ speaking_time = 0
    /\ conversation_history = <<>>
    /\ questions = <<>>
    /\ q_iter = 0
    /\ question_count = 0
    /\ question = 0
    /\ speaking_start = 0
    /\ user_response = <<>>
    /\ feedback = ""
    /\ new_response = <<>>
    /\ heard = <<>>
    /\ command = "none"
    /\ cmd_error = "none"
    /\ lfs_pc = "idle"
    /\ retry_count = 0
    /\ text = <<>>
    /\ lfs_result = <<>>
    /\ lfs_attempts = 0
    /\ lfs_fails = 0
    /\ lfs_ext = 0
    /\ lfs_service = FALSE
    /\ lfs_typed = FALSE
    /\ presented = <<>>
    /\ last_answer = NoAnswer
    /\ menu_exit = NoMenuExit
    /\ stats_shown = 0
    /\ stats_divisor = -1

\* no call of split_text_for_tts is being followed
InitTts ==
    /\ tts_pc = "idle"
    /\ tts_text = <<>>
    /\ max_length = 0
    /\ chunks = <<>>

\* the state before main() runs; the module-level import has set SPEECH_AVAILABLE
Init ==
    /\ InitCommon
    /\ InitTts
    /\ use_online_tts = FALSE
    /\ SPEECH_AVAILABLE \in BOOLEAN
    /\ pc = "main"
    /\ cmd_pc = "idle"

\* a blocking call takes d units of wall-clock time
Tick(d) == now + d <= MaxTime /\ now' = now + d

(***************************************************************************)
(* speak_text, lines 241-251, and speak_with_google_tts, lines 265-324.     *)
(* One call is decided by what the web request does (it plays the audio,   *)
(* answers with a status other than 200, fails at the imports, or raises)  *)
(* and by whether the local engine's say / runAndWait works or raises.     *)
(***************************************************************************)
\* line 28; settings_menu, which toggles it, is not part of the model
auto_speak == TRUE

OnlineOutcomes == {"played", "status_fail", "import_error", "exception"}

\* lines 267-324: the local engine is the fallback of the status test (312),
\* of ImportError (318) and of every other exception (323); an error of the
\* engine inside a handler is not caught
speak_with_google_tts(web, engine_works) ==
    IF web = "played" THEN "spoken"
    ELSE IF engine_works THEN "spoken"
    ELSE "raised"

\* lines 243-251
speak_text(use_online, web, engine_works) ==
    IF ~SPEECH_AVAILABLE \/ ~auto_speak THEN "silent"
    ELSE IF use_online THEN speak_with_google_tts(web, engine_works)
    ELSE IF engine_works THEN "spoken"
    ELSE "raised"

\* what one call of speak_text may do
SpeakOutcomes(use_online) ==
    {speak_text(use_online, web, engine_works) :
        web \in OnlineOutcomes, engine_works \in BOOLEAN}

(***************************************************************************)
(* split_text_for_tts, lines 326-346.                                      *)
(***************************************************************************)
\* line 332: s.split('. '): the pieces between the occurrences of '. ',
\* taken from the left and not overlapping; a piece may be empty
RECURSIVE SplitOnSentence(_)
SplitOnSentence(s) ==
    LET IsSep(i) == s[i] = "." /\ s[i + 1] = " " IN
    IF \E i \in 1..(Len(s) - 1) : IsSep(i)
    THEN LET first == CHOOSE i \in 1..(Len(s) - 1) :
                          IsSep(i) /\ \A j \in 1..(i - 1) : ~IsSep(j)
         IN  <<SubSeq(s, 1, first - 1)>> \o
                 SplitOnSentence(SubSeq(s, first + 2, Len(s)))
    ELSE <<s>>

\* lines 339-340 and 343-344: if current_chunk: chunks.append(current_chunk.strip())
AppendChunk(acc, current_chunk) ==
    IF current_chunk # <<>> THEN Append(acc, Strip(current_chunk)) ELSE acc

\* lines 335-346: the loop over the sentences and the return
RECURSIVE SplitLoop(_, _, _, _)
SplitLoop(sentences, current_chunk, acc, ceiling) ==
    IF sentences = <<>> THEN AppendChunk(acc, current_chunk)
    ELSE LET sentence == Head(sentences) IN
         IF Len(current_chunk \o sentence) <= ceiling
         THEN SplitLoop(Tail(sentences),
                        current_chunk \o sentence \o <<".", " ">>, acc, ceiling)
         ELSE SplitLoop(Tail(sentences), sentence \o <<".", " ">>,
                        AppendChunk(acc, current_chunk), ceiling)

\* lines 326-346
split_text_for_tts(t, ceiling) ==
    IF Len(t) <= ceiling THEN <<t>>
    ELSE SplitLoop(SplitOnSentence(t), <<>>, <<>>, ceiling)

\* the texts and ceilings handed to split_text_for_tts: every text of at most
\* MaxTextLen characters over a letter, the full stop and the blank
SplitAlphabet == {"a", ".", " "}
SplitTexts == UNION {[1..n -> SplitAlphabet] : n \in 0..MaxTextLen}
Ceilings == 1..MaxCeiling

\* line 277: chunks = self.split_text_for_tts(text)
SplitText ==
    /\ tts_pc = "call"
    /\ chunks' = split_text_for_tts(tts_text, max_length)
    /\ tts_pc' = "returned"
    /\ UNCHANGED <<pc, SPEECH_AVAILABLE, now, sessions, mic_held, botVars,
                   loopVars, cmdVars, lfsVars, histVars, tts_text, max_length>>

(***************************************************************************)
(* listen_for_command, lines 87-119.  A bot exists only when               *)
(* SPEECH_AVAILABLE holds (main, lines 713-716), so the input() of line 90 *)
(* is never reached.                                                       *)
(***************************************************************************)
\* lines 92-96: the call, up to entering the microphone
CallCmd ==
    /\ cmd_pc' = "listen"
    /\ mic_held' = TRUE
    /\ heard' = <<>>
    /\ command' = "none"
    /\ cmd_error' = "none"

\* the caller has taken the returned value; the locals are gone
CmdIdle ==
    /\ cmd_pc' = "idle"
    /\ heard' = <<>>
    /\ command' = "none"
    /\ cmd_error' = "none"

\* lines 96-99 and 117-119: the capture inside the with block; the block is
\* left (microphone released) whether listen() returns or raises
CmdListen ==
    /\ cmd_pc = "listen"
    /\ \E d \in Delays : Tick(d)
    /\ mic_held' = FALSE
    /\ \/ /\ cmd_pc' = "recognize"
          /\ UNCHANGED <<command, cmd_error>>
       \/ /\ cmd_error' = "timeout"
          /\ command' = CommandOnFailure
          /\ cmd_pc' = "done"
    /\ UNCHANGED <<pc, SPEECH_AVAILABLE, ttsVars, sessions, botVars, loopVars, heard,
                   lfsVars, histVars>>

\* lines 104-115: the text recognize_google returned, classified
CmdRecognized(t) ==
    /\ cmd_pc = "recognize"
    /\ heard' = t
    /\ command' = ClassifyCommand(t)
    /\ cmd_pc' = "done"
    /\ UNCHANGED <<pc, SPEECH_AVAILABLE, ttsVars, now, sessions, mic_held, botVars,
                   loopVars, cmd_error, lfsVars, histVars>>

\* lines 104 and 117-119: recognize_google raises
CmdRecognizeFails(err) ==
    /\ cmd_pc = "recognize"
    /\ cmd_error' = err
    /\ command' = CommandOnFailure
    /\ cmd_pc' = "done"
    /\ UNCHANGED <<pc, SPEECH_AVAILABLE, ttsVars, now, sessions, mic_held, botVars,
                   loopVars, heard, lfsVars, histVars>>

CmdRecognize ==
    \/ \E t \in CommandTexts : CmdRecognized(t)
    \/ \E err \in {"unknown", "request"} : CmdRecognizeFails(err)

(***************************************************************************)
(* listen_for_speech, lines 348-401.                                       *)
(***************************************************************************)
CallLfs ==
    /\ lfs_pc' = "loop"
    /\ retry_count' = 0
    /\ text' = <<>>
    /\ lfs_result' = <<>>
    /\ lfs_attempts' = 0
    /\ lfs_fails' = 0
    /\ lfs_ext' = 0
    /\ lfs_service' = FALSE
    /\ lfs_typed' = FALSE

\* the caller has taken the returned value; the locals are gone
LfsIdle ==
    /\ lfs_pc' = "idle"
    /\ retry_count' = 0
    /\ text' = <<>>
    /\ lfs_result' = <<>>
    /\ lfs_attempts' = 0
    /\ lfs_fails' = 0
    /\ lfs_ext' = 0
    /\ lfs_service' = FALSE
    /\ lfs_typed' = FALSE

LfsFrame == UNCHANGED <<pc, SPEECH_AVAILABLE, ttsVars, sessions, botVars, loopVars,
                        cmdVars, histVars>>

\* lines 356-358 and 401: the loop test; entering the microphone, or the
\* typed entry after the loop
LfsLoop ==
    /\ lfs_pc = "loop"
    /\ IF LoopContinues(retry_count)
       THEN /\ lfs_pc' = "listen"
            /\ mic_held' = TRUE
            /\ lfs_attempts' = lfs_attempts + 1
       ELSE /\ lfs_pc' = "type"
            /\ UNCHANGED <<mic_held, lfs_attempts>>
    /\ UNCHANGED <<now, retry_count, text, lfs_result, lfs_fails, lfs_ext,
                   lfs_service, lfs_typed>>
    /\ LfsFrame

\* lines 379-386, 392-399: UnknownValueError or WaitTimeoutError
LfsFailure ==
    /\ retry_count' = retry_count + 1
    /\ lfs_pc' = AfterFailure(retry_count + 1)
    /\ lfs_fails' = lfs_fails + 1

\* lines 358-363, 392: the capture inside the with block
LfsListen ==
    /\ lfs_pc = "listen"
    /\ \E d \in Delays : Tick(d)
    /\ mic_held' = FALSE
    /\ \/ /\ lfs_pc' = "recognize"
          /\ UNCHANGED <<retry_count, lfs_fails>>
       \/ LfsFailure
    /\ UNCHANGED <<text, lfs_result, lfs_attempts, lfs_ext, lfs_service, lfs_typed>>
    /\ LfsFrame

\* lines 366-368, 377: recognize_google returns a transcript
LfsRecognized ==
    /\ lfs_pc = "recognize"
    /\ \E t \in RecognizedTexts :
          /\ text' = t
          /\ IF IsShort(t)
             THEN lfs_pc' = "short" /\ UNCHANGED lfs_result
             ELSE lfs_pc' = "done" /\ lfs_result' = t
    /\ UNCHANGED <<now, mic_held, retry_count, lfs_attempts, lfs_fails, lfs_ext,
                   lfs_service, lfs_typed>>
    /\ LfsFrame

\* lines 366, 379: recognize_google raises UnknownValueError
LfsUnknown ==
    /\ lfs_pc = "recognize"
    /\ LfsFailure
    /\ UNCHANGED <<now, mic_held, text, lfs_result, lfs_attempts, lfs_ext,
                   lfs_service, lfs_typed>>
    /\ LfsFrame

\* lines 366, 388-390: recognize_google raises RequestError
LfsRequestError ==
    /\ lfs_pc = "recognize"
    /\ lfs_pc' = AfterRequestError(retry_count)
    /\ lfs_service' = TRUE
    /\ UNCHANGED <<now, mic_held, retry_count, text, lfs_result, lfs_attempts,
                   lfs_fails, lfs_ext, lfs_typed>>
    /\ LfsFrame

\* lines 369-372, 377: the "say more or continue" prompt
LfsShort ==
    /\ lfs_pc = "short"
    /\ \E choice \in ContinueChoices :
          IF SaysMore(choice)
          THEN lfs_pc' = "more_listen" /\ lfs_ext' = lfs_ext + 1
                  /\ UNCHANGED lfs_result
          ELSE lfs_pc' = "done" /\ lfs_result' = text /\ UNCHANGED lfs_ext
    /\ UNCHANGED <<now, mic_held, retry_count, text, lfs_attempts, lfs_fails,
                   lfs_service, lfs_typed>>
    /\ LfsFrame

\* line 373: the extension capture.  It is made on `source` after the with
\* block of lines 358-363 has been left, so on a microphone that is no
\* longer entered: the capture may proceed, time out (line 392), or fail
\* with an error that no except clause of listen_for_speech names, which
\* leaves listen_for_speech and its callers by exception.
LfsMoreListen ==
    /\ lfs_pc = "more_listen"
    /\ \E d \in Delays : Tick(d)
    /\ \/ /\ lfs_pc' = "more_recognize"
          /\ UNCHANGED <<pc, retry_count, lfs_fails>>
       \/ /\ LfsFailure
          /\ UNCHANGED pc
       \/ /\ lfs_pc' = "raised"
          /\ pc' = "crashed"
          /\ UNCHANGED <<retry_count, lfs_fails>>
    /\ UNCHANGED <<SPEECH_AVAILABLE, ttsVars, sessions, mic_held, botVars, loopVars,
                   cmdVars, histVars, text, lfs_result, lfs_attempts, lfs_ext,
                   lfs_service, lfs_typed>>

\* lines 374-377: the extension transcript is appended
LfsMoreRecognized ==
    /\ lfs_pc = "more_recognize"
    /\ \E more_text \in ExtensionTexts :
          /\ text' = Extend(text, more_text)
          /\ lfs_result' = Extend(text, more_text)
    /\ lfs_pc' = "done"
    /\ UNCHANGED <<now, mic_held, retry_count, lfs_attempts, lfs_fails, lfs_ext,
                   lfs_service, lfs_typed>>
    /\ LfsFrame

\* lines 374, 379: the extension transcript is not understood
LfsMoreUnknown ==
    /\ lfs_pc = "more_recognize"
    /\ LfsFailure
    /\ UNCHANGED <<now, mic_held, text, lfs_result, lfs_attempts, lfs_ext,
                   lfs_service, lfs_typed>>
    /\ LfsFrame

\* lines 374, 388-390
LfsMoreRequestError ==
    /\ lfs_pc = "more_recognize"
    /\ lfs_pc' = AfterRequestError(retry_count)
    /\ lfs_service' = TRUE
    /\ UNCHANGED <<now, mic_held, retry_count, text, lfs_result, lfs_attempts,
                   lfs_fails, lfs_ext, lfs_typed>>
    /\ LfsFrame

\* lines 386, 390, 399, 401: return input("... type your response: ")
LfsType ==
    /\ lfs_pc = "type"
    /\ \E typed \in TypedTexts : lfs_result' = typed
    /\ lfs_pc' = "done"
    /\ lfs_typed' = TRUE
    /\ UNCHANGED <<now, mic_held, retry_count, text, lfs_attempts, lfs_fails,
                   lfs_ext, lfs_service>>
    /\ LfsFrame

ListenForSpeech ==
    \/ LfsLoop
    \/ LfsListen
    \/ LfsRecognized
    \/ LfsUnknown
    \/ LfsRequestError
    \/ LfsShort
    \/ LfsMoreListen
    \/ LfsMoreRecognized
    \/ LfsMoreUnknown
    \/ LfsMoreRequestError
    \/ LfsType

(***************************************************************************)
(* main and main_menu, lines 671-733.                                      *)
(***************************************************************************)
\* lines 711-733: without the speech libraries main returns before a bot
\* exists; otherwise the bot is constructed (lines 23-29; the voice is chosen
\* and, for a local voice, tested aloud, lines 212-237) and, when Ollama
\* answers, the welcome is spoken (731) and the menu starts.  An error of
\* speak_text is caught nowhere: it ends the program.
Main ==
    /\ pc = "main"
    /\ IF ~SPEECH_AVAILABLE
       THEN pc' = "exit" /\ UNCHANGED botVars
       ELSE /\ conversation_history' = <<>>
            /\ session_start' = now
            /\ speaking_time' = 0
            /\ \E online \in BOOLEAN, connected \in BOOLEAN :
               \E voice_test \in SpeakOutcomes(online),
                  welcome \in SpeakOutcomes(online) :
                  /\ use_online_tts' = online
                  /\ pc' = IF ~online /\ voice_test = "raised" THEN "crashed"
                            ELSE IF ~connected THEN "exit"
                            ELSE IF welcome = "raised" THEN "crashed"
                            ELSE "main_menu"
    /\ UNCHANGED <<SPEECH_AVAILABLE, ttsVars, now, sessions, mic_held, loopVars, cmdVars,
                   lfsVars, histVars>>

\* lines 689-696 and 440-462: a practice level is chosen; the questions are
\* selected, the greeting is spoken (455, 460) and the start command is
\* awaited
StartPractice(difficulty, category) ==
    /\ pc = "main_menu"
    /\ sessions < MaxSessions
    /\ sessions' = sessions + 1
    /\ questions' = practice_topics(difficulty, category)
    /\ \E spoken \in SpeakOutcomes(use_online_tts) :
          IF spoken = "raised"
          THEN pc' = "crashed" /\ UNCHANGED <<mic_held, cmdVars>>
          ELSE pc' = "ready" /\ CallCmd
    /\ presented' = <<>>
    /\ last_answer' = NoAnswer
    /\ menu_exit' = NoMenuExit
    /\ stats_shown' = 0
    /\ stats_divisor' = -1
    /\ UNCHANGED <<SPEECH_AVAILABLE, ttsVars, now, botVars, q_iter, question_count,
                   question, speaking_start, user_response, feedback,
                   new_response, lfsVars>>

\* lines 703-707: choice "8"
ExitMenu ==
    /\ pc = "main_menu"
    /\ \E spoken \in SpeakOutcomes(use_online_tts) :
          pc' = IF spoken = "raised" THEN "crashed" ELSE "exit"
    /\ UNCHANGED <<SPEECH_AVAILABLE, ttsVars, now, sessions, mic_held, botVars, loopVars,
                   cmdVars, lfsVars, histVars>>

\* lines 687-707: of the practice choices, choice "1" is followed; the other
\* levels run the same practice_conversation on another list
MainMenu ==
    \/ StartPractice("beginner", "personal")
    \/ ExitMenu

(***************************************************************************)
(* practice_conversation, lines 436-577.                                   *)
(***************************************************************************)
\* lines 462-464: the start command has been heard
Ready ==
    /\ pc = "ready"
    /\ cmd_pc = "done"
    /\ CmdIdle
    /\ question_count' = 0
    /\ q_iter' = 0
    /\ pc' = "for"
    /\ UNCHANGED <<SPEECH_AVAILABLE, ttsVars, now, sessions, mic_held, botVars, questions,
                   question, speaking_start, user_response, feedback,
                   new_response, lfsVars, histVars>>

\* lines 466-482: the for loop takes the next question, speaks it and starts
\* the answer capture
ForNext ==
    /\ pc = "for"
    /\ q_iter < Len(questions)
    /\ q_iter' = NextItem(q_iter)
    /\ question' = questions[NextItem(q_iter)]
    /\ question_count' = NextCount(question_count)
    /\ presented' = Append(presented, questions[NextItem(q_iter)])
    /\ feedback' = ""
    /\ \E spoken \in SpeakOutcomes(use_online_tts) :
          IF spoken = "raised"
          THEN pc' = "crashed" /\ UNCHANGED <<speaking_start, lfsVars>>
          ELSE /\ speaking_start' = now
               /\ CallLfs
               /\ pc' = "answer"
    /\ UNCHANGED <<SPEECH_AVAILABLE, ttsVars, now, sessions, mic_held, botVars, questions,
                   user_response, new_response, cmdVars, last_answer, menu_exit,
                   stats_shown, stats_divisor>>

\* lines 466, 577: the list is exhausted
ForEnd ==
    /\ pc = "for"
    /\ q_iter >= Len(questions)
    /\ pc' = "stats"
    /\ UNCHANGED <<SPEECH_AVAILABLE, ttsVars, now, sessions, mic_held, botVars, loopVars,
                   cmdVars, lfsVars, histVars>>

\* lines 482-499: the answer has been captured; the duration is measured and
\* accumulated, then the utterance is treated by its class; for the repeat
\* class the question is spoken again (498)
Answer ==
    /\ pc = "answer"
    /\ lfs_pc = "done"
    /\ user_response' = lfs_result
    /\ speaking_time' = Accumulate(speaking_time, Elapsed(now, speaking_start))
    /\ last_answer' = [q |-> question_count, cls |-> AnswerClass(lfs_result)]
    /\ menu_exit' = NoMenuExit
    /\ \E spoken \in SpeakOutcomes(use_online_tts) :
          pc' = IF AnswerClass(lfs_result) = "repeat" /\ spoken = "raised"
                THEN "crashed"
                ELSE AfterAnswer(AnswerClass(lfs_result))
    /\ LfsIdle
    /\ UNCHANGED <<SPEECH_AVAILABLE, ttsVars, now, sessions, mic_held, session_start,
                   conversation_history, use_online_tts, questions, q_iter,
                   question_count, question, speaking_start, feedback,
                   new_response, cmdVars, presented, stats_shown, stats_divisor>>

\* lines 511-528: feedback is requested, shown and spoken; except after the
\* last question the command menu follows
Feedback ==
    /\ pc = "feedback"
    /\ \E response \in ChatResponses : feedback' = get_ai_feedback(response)
    /\ \E spoken \in SpeakOutcomes(use_online_tts) :
          IF spoken = "raised"
          THEN pc' = "crashed" /\ UNCHANGED <<mic_held, cmdVars>>
          ELSE IF MenuNeeded(question_count, Len(questions))
          THEN pc' = "menu" /\ CallCmd
          ELSE pc' = "for" /\ UNCHANGED <<mic_held, cmdVars>>
    /\ UNCHANGED <<SPEECH_AVAILABLE, ttsVars, now, sessions, botVars, questions, q_iter,
                   question_count, question, speaking_start, user_response,
                   new_response, lfsVars, histVars>>

\* lines 528-543 and 569-575: the command of the post-feedback menu
Menu ==
    /\ pc = "menu"
    /\ cmd_pc = "done"
    /\ feedback' = ""
    /\ CASE MenuAfter(command) = "repeat" ->
              /\ \E spoken \in SpeakOutcomes(use_online_tts) :
                    IF spoken = "raised"
                    THEN pc' = "crashed" /\ UNCHANGED <<speaking_start, lfsVars>>
                    ELSE /\ speaking_start' = now
                         /\ CallLfs
                         /\ pc' = "again"
              /\ CmdIdle
              /\ UNCHANGED <<mic_held, menu_exit>>
         [] MenuAfter(command) = "leave" ->
              /\ pc' = "for"
              /\ menu_exit' = [by |-> command, q |-> question_count]
              /\ CmdIdle
              /\ UNCHANGED <<mic_held, speaking_start, lfsVars>>
         [] OTHER ->
              /\ CallCmd
              /\ UNCHANGED <<pc, menu_exit, speaking_start, lfsVars>>
    /\ UNCHANGED <<SPEECH_AVAILABLE, ttsVars, now, sessions, botVars, questions, q_iter,
                   question_count, question, user_response, new_response,
                   presented, last_answer, stats_shown, stats_divisor>>

\* lines 542-545: the new answer of a repeat has been captured and its
\* duration measured
Again ==
    /\ pc = "again"
    /\ lfs_pc = "done"
    /\ new_response' = lfs_result
    /\ speaking_time' = AccumulateNew(speaking_time, Elapsed(now, speaking_start))
    /\ pc' = IF ProcessNew(lfs_result) THEN "new_feedback" ELSE "press_enter"
    /\ LfsIdle
    /\ UNCHANGED <<SPEECH_AVAILABLE, ttsVars, now, sessions, mic_held, session_start,
                   conversation_history, use_online_tts, questions,
                   q_iter, question_count, question, speaking_start,
                   user_response, feedback, cmdVars, histVars>>

\* lines 555-563: feedback on the new answer; both are appended to the
\* history
NewFeedback ==
    /\ pc = "new_feedback"
    /\ \E response \in ChatResponses : feedback' = get_ai_feedback(response)
    /\ \E spoken \in SpeakOutcomes(use_online_tts) :
          IF spoken = "raised"
          THEN pc' = "crashed" /\ UNCHANGED conversation_history
          ELSE /\ conversation_history' =
                     AppendAttempt(conversation_history, question)
               /\ pc' = "press_enter"
    /\ UNCHANGED <<SPEECH_AVAILABLE, ttsVars, now, sessions, mic_held, session_start,
                   speaking_time, use_online_tts, questions, q_iter, question_count, question,
                   speaking_start, user_response, new_response, cmdVars,
                   lfsVars, histVars>>

\* lines 565-567: "Press Enter to continue...", then break
PressEnter ==
    /\ pc = "press_enter"
    /\ pc' = "for"
    /\ feedback' = ""
    /\ new_response' = <<>>
    /\ menu_exit' = [by |-> "repeat", q |-> question_count]
    /\ UNCHANGED <<SPEECH_AVAILABLE, ttsVars, now, sessions, mic_held, botVars, questions,
                   q_iter, question_count, question, speaking_start,
                   user_response, cmdVars, lfsVars, presented, last_answer,
                   stats_shown, stats_divisor>>

\* line 652: if SPEECH_AVAILABLE and self.speaking_time > 0
SpeakingPercentageAlways(speaking) == SPEECH_AVAILABLE

SpeakingPercentageShown(speaking) == SPEECH_AVAILABLE /\ speaking > 0

\* lines 577 and 646-657: the statistics are shown (duration, line 648, is
\* the time since session_start; line 654 divides by it under the guard of
\* line 652) and practice_conversation returns to the menu; its locals are
\* gone
ShowStats ==
    /\ pc = "stats"
    /\ pc' = "main_menu"
    /\ questions' = <<>>
    /\ q_iter' = 0
    /\ question_count' = 0
    /\ question' = 0
    /\ speaking_start' = 0
    /\ user_response' = <<>>
    /\ feedback' = ""
    /\ new_response' = <<>>
    /\ stats_shown' = stats_shown + 1
    /\ stats_divisor' =
          IF SpeakingPercentageShown(speaking_time)
          THEN Elapsed(now, session_start)
          ELSE -1
    /\ UNCHANGED <<SPEECH_AVAILABLE, ttsVars, now, sessions, mic_held, botVars, cmdVars,
                   lfsVars, presented, last_answer, menu_exit>>

PracticeConversation ==
    \/ Ready
    \/ ForNext
    \/ ForEnd
    \/ Answer
    \/ Feedback
    \/ Menu
    \/ Again
    \/ NewFeedback
    \/ PressEnter
    \/ ShowStats

ListenForCommand ==
    \/ CmdListen
    \/ CmdRecognize

Next ==
    \/ Main
    \/ MainMenu
    \/ PracticeConversation
    \/ ListenForCommand
    \/ ListenForSpeech

Spec == Init /\ [][Next]_vars

\* The program is one sequential thread: while a step is possible it is
\* taken, every blocking external call (input, listen, recognize_google,
\* ollama.chat, playback) being assumed to come back.
FairSpec == Spec /\ WF_vars(Next)

(***************************************************************************)
(* The command classification as a function of the recognised text: every  *)
(* input of ClassifyInputs is handed to lines 104-115.                     *)
(***************************************************************************)
InitClassify ==
    /\ InitCommon
    /\ InitTts
    /\ use_online_tts = FALSE
    /\ SPEECH_AVAILABLE = TRUE
    /\ pc = "menu"
    /\ cmd_pc = "recognize"

NextClassify == \E t \in ClassifyInputs : CmdRecognized(t)

SpecClassify == InitClassify /\ [][NextClassify]_vars

(***************************************************************************)
(* split_text_for_tts as a function of its arguments: speak_with_google_tts *)
(* (reached from speak_text when use_online_tts is set) calls it on the    *)
(* text it is to speak.                                                    *)
(***************************************************************************)
InitSplit ==
    /\ InitCommon
    /\ SPEECH_AVAILABLE = TRUE
    /\ use_online_tts = TRUE
    /\ pc = "feedback"
    /\ cmd_pc = "idle"
    /\ tts_pc = "call"
    /\ tts_text \in SplitTexts
    /\ max_length \in Ceilings
    /\ chunks = <<>>

NextSplit == SplitText

SpecSplit == InitSplit /\ [][NextSplit]_vars


(***************************************************************************)
(* Properties.                                                             *)
(***************************************************************************)
AllKeywords == NextWords \cup RepeatWords \cup EnterWords

\* while practice_conversation runs (it holds its list of questions), the
\* questions presented so far are the first items of the list, in its order
PresentedInListOrder ==
    (pc \notin {"main", "main_menu", "exit"} /\ questions # <<>>) =>
        /\ Len(presented) <= Len(questions)
        /\ \A i \in 1..Len(presented) : presented[i] = questions[i]

\* the first answer to question last_answer.q got no feedback and the loop
\* has gone past that question: it ended, or a later question is being asked
PassedOverUnanswered ==
    /\ last_answer.cls \notin {"none", "answer"}
    /\ \/ pc = "stats"
       \/ pc = "answer" /\ question_count > last_answer.q

\* C1: after a repeat-class first answer to question i, the answer capture
\* that follows is again for question i (the index is not advanced).
C1_RepeatKeepsIndex ==
    (pc = "answer" /\ last_answer.cls = "repeat") => question_count = last_answer.q

\* C2: when the post-feedback menu has ended on 'next' or 'enter' at question
\* i, the loop goes on (the list is not exhausted) and the question presented
\* next is item i + 1 of the list, counted as question i + 1.
C2_NextAdvancesByOne ==
    menu_exit.by \in {"next", "enter"} =>
        \/ /\ pc = "for"
           /\ question_count = menu_exit.q
           /\ q_iter = menu_exit.q
           /\ q_iter < Len(questions)
        \/ /\ pc \in {"answer", "crashed"}
           /\ question_count = menu_exit.q + 1
           /\ question = questions[menu_exit.q + 1]

C2_Witness ==
    /\ pc = "answer"
    /\ menu_exit = [by |-> "next", q |-> 1]
    /\ question_count = 2

\* C3: whatever text is recognised, listen_for_command returns one of next,
\* repeat, enter, and it returns enter when the text holds no keyword.
C3_ClassificationTotal ==
    cmd_pc = "done" =>
        /\ command \in {"next", "repeat", "enter"}
        /\ (~ContainsAny(Lower(heard), AllKeywords) => command = "enter")

C3_Witness ==
    /\ cmd_pc = "done"
    /\ heard = T_hmm
    /\ command = "enter"

\* C4: keywords are matched as substrings of the lower-cased text, next-class
\* before repeat-class before enter-class, and the three utterances of the
\* scenario are classified next, repeat and enter.
C4_KeywordPriority ==
    cmd_pc = "done" =>
        LET l == Lower(heard) IN
        /\ ContainsAny(l, NextWords) => command = "next"
        /\ (~ContainsAny(l, NextWords) /\ ContainsAny(l, RepeatWords))
              => command = "repeat"
        /\ (~ContainsAny(l, NextWords) /\ ~ContainsAny(l, RepeatWords))
              => command = "enter"
        /\ heard = T_next_question_please => command = "next"
        /\ heard = T_can_you_repeat_that => command = "repeat"
        /\ heard = T_hmm => command = "enter"

\* "Go Again": mixed case, a next-class and a repeat-class keyword
C4_Witness ==
    /\ cmd_pc = "done"
    /\ heard = T_Go_Again
    /\ ContainsAny(Lower(heard), RepeatWords)
    /\ command = "next"

\* C5: once a command capture has failed (no match, service error or
\* timeout) the call has returned 'enter': there is no state in which the
\* failure has been caught and the call is still capturing or recognising.
C5_FailureDefaultsToEnter ==
    cmd_error # "none" =>
        /\ cmd_pc = "done"
        /\ command = "enter"
        /\ ~mic_held

C5_Witness ==
    /\ cmd_error = "request"
    /\ cmd_pc = "done"
    /\ pc = "menu"

C7_SpeakingTimeBounded ==
    /\ [](speaking_time <= now - session_start)
    /\ [][speaking_time' >= speaking_time]_vars

C7_Witness ==
    /\ last_answer.q = 2
    /\ speaking_time = 2
    /\ pc = "for"

\* C8 as stated: the typed fallback for unrecognised speech or silence comes
\* after three failures.
C8_ThreeFailuresFallBack ==
    (lfs_typed /\ ~lfs_service) => lfs_fails = 3

\* C8 as amended: at most 2 captures are attempted in the loop; below 2
\* failures the call does not turn to typing; the second failure makes it
\* turn to typing, and the typed text is what it returns.
C8_TwoFailuresFallBack ==
    /\ lfs_attempts <= 2
    /\ (lfs_fails < 2 /\ ~lfs_service) => (lfs_pc # "type" /\ ~lfs_typed)
    /\ lfs_fails >= 2 =>
          /\ lfs_fails = 2
          /\ lfs_pc \in {"type", "done"}
          /\ lfs_pc = "done" => lfs_typed
    /\ (lfs_typed /\ ~lfs_service) => lfs_fails = 2

C8_Witness ==
    /\ lfs_pc = "done"
    /\ lfs_typed
    /\ ~lfs_service
    /\ lfs_fails = 2
    /\ lfs_attempts = 2
    /\ lfs_ext = 0

\* C9: once a RequestError has been caught the call is typing or has
\* returned the typed text; no capture or recognition follows it.
C9_ServiceErrorFallsBack ==
    lfs_service =>
        /\ lfs_pc \in {"type", "done"}
        /\ lfs_pc = "done" => lfs_typed
        /\ ~mic_held

\* the service fails at the first attempt, with the whole budget left
C9_Witness ==
    /\ lfs_service
    /\ lfs_pc = "done"
    /\ lfs_typed
    /\ retry_count = 0

\* C10: a call of listen_for_speech never ends without an answer; it makes
\* at most max_retries captures in its loop, and once the answer has been
\* typed the call has returned.
C10_EveryCallAnswers ==
    /\ lfs_pc # "raised"
    /\ lfs_attempts <= max_retries
    /\ lfs_typed => lfs_pc = "done"

\* C11: the "say more or continue" prompt follows a transcript exactly when
\* the transcript has fewer than 2 words; one call makes at most one extension
\* capture; an extension capture that has been started ends with its
\* recognition, and the recognised text is appended to the first transcript.
C11_SingleExtensionAppended ==
    /\ [][(lfs_pc = "recognize" /\ lfs_pc' \in {"short", "done"})
             => (lfs_pc' = "short" <=> IsShort(text'))]_vars
    /\ [](lfs_ext <= 1)
    /\ [][lfs_pc = "more_listen" => lfs_pc' # "raised"]_vars
    /\ [][(lfs_pc = "more_recognize" /\ lfs_pc' = "done")
             => \E more_text \in ExtensionTexts :
                   lfs_result' = text \o <<" ">> \o more_text]_vars

\* C12: whatever the feedback generator does (a response with content, a
\* response without a message, an exception), the text get_ai_feedback hands
\* to practice_conversation is a non-empty string.
C12_FeedbackNeverEmpty ==
    [][(pc \in {"feedback", "new_feedback"}) => (feedback' # "")]_vars

\* the question loop of practice_conversation (lines 466-575) is running
InQuestionLoop ==
    pc \in {"for", "answer", "feedback", "menu", "again", "new_feedback",
            "press_enter"}

\* C13: the question loop is left only for the statistics, and only because
\* the list is exhausted or the answer utterance was of the finish class; no
\* failure of the transcription, feedback or synthesis service ends it.
C13_LoopEndsOnlyOnFinishOrExhaustion ==
    [][(InQuestionLoop /\ ~InQuestionLoop') =>
          /\ pc' = "stats"
          /\ \/ pc = "for" /\ q_iter >= Len(questions)
             \/ pc = "answer" /\ AnswerClass(user_response') = "finish"]_vars

\* the answer to a presented question, when listen_for_speech has returned
\* it: feedback is requested exactly for the class "answer"; an empty or skip-class utterance returns to the head of
\* the loop, at the same question count, without an error
AnswerFeedbackOnlyForSubstantive ==
    (pc = "answer" /\ lfs_pc = "done" /\ lfs_pc' = "idle") =>
        LET cls == AnswerClass(user_response') IN
        /\ pc' = "feedback" <=> cls = "answer"
        /\ cls \in {"empty", "skip"} =>
              (pc' = "for" /\ question_count' = question_count)

\* C14 as stated: for every capture (the answer to a presented question and
\* the new answer of the repeat transition) feedback is requested only when
\* the utterance is a substantive answer, not for an empty utterance or a
\* skip-, finish- or repeat-class command; empty and skip advance without error.
C14_FeedbackOnlyForSubstantive ==
    [][/\ AnswerFeedbackOnlyForSubstantive
       /\ (pc = "again" /\ lfs_pc = "done" /\ lfs_pc' = "idle") =>
             (pc' = "new_feedback" <=> AnswerClass(new_response') = "answer")]_vars

\* C14 as amended: the statement holds for the answer to a presented
\* question; for the new answer of the repeat transition feedback is requested
\* exactly when the utterance is non-empty and is no skip or finish phrase, so
\* a repeat phrase given there does get feedback.
C14_FeedbackOnlyForSubstantiveFirstAnswer ==
    [][/\ AnswerFeedbackOnlyForSubstantive
       /\ (pc = "again" /\ lfs_pc = "done" /\ lfs_pc' = "idle") =>
             (pc' = "new_feedback" <=>
                 /\ new_response' # <<>>
                 /\ Lower(new_response') \notin SkipPhrases \cup FinishPhrases)]_vars

C14_Witness ==
    /\ pc = "answer"
    /\ question_count = 2
    /\ last_answer = [q |-> 1, cls |-> "skip"]
    /\ conversation_history = <<>>

\* the session was ended by the synthesis engine failing to come back from a
\* call of speak_text (and not by the capture of line 373)
SynthesisGaveUp == pc = "crashed" /\ lfs_pc # "raised"

\* C15: unless the synthesis engine fails to come back from a call, every
\* practice session that has started comes to its end with the statistics
\* shown; the statistics are shown once per session, by the step that follows
\* the end of the question loop, and not while the loop runs.
C15_SessionEndsWithStatsOnce ==
    /\ (pc = "ready") ~> ((pc = "main_menu" /\ stats_shown = 1) \/ SynthesisGaveUp)
    /\ [](stats_shown <= 1)
    /\ []((InQuestionLoop \/ pc \in {"ready", "stats"}) => stats_shown = 0)
    /\ [][(stats_shown' # stats_shown /\ pc # "main_menu") => pc = "stats"]_vars

\* the post-feedback menu of lines 527-575 and its repeat transition
InMenu == pc \in {"menu", "again", "new_feedback", "press_enter"}

\* C16: once the repeat transition has been handled the menu solicits a
\* command again, and the menu is left for the next question only by a step
\* that takes the command 'next' or 'enter'.
C16_MenuStaysAfterRepeat ==
    /\ [][pc = "press_enter" => (pc' = "menu" /\ cmd_pc' = "listen")]_vars
    /\ [][(InMenu /\ pc' = "for") =>
             (pc = "menu" /\ command \in {"next", "enter"})]_vars

\* the entries of the history that belong to question q, in order
HistoryOf(q) ==
    SelectSeq(conversation_history, LAMBDA e : e.content[2] = q)

\* C17: when the new answer of a repeat transition has been processed, the
\* history holds, for that question, the first answer and its feedback
\* followed by the new answer and its feedback.
C17_BothAttemptsRetained ==
    (pc = "press_enter" /\ ProcessNew(new_response)) =>
        LET h == HistoryOf(question) IN
        /\ Len(h) >= 4
        /\ h[Len(h) - 3] = [role |-> "user", content |-> <<"user_response", question>>]
        /\ h[Len(h) - 2] = [role |-> "assistant", content |-> <<"feedback", question>>]
        /\ h[Len(h) - 1] = [role |-> "user", content |-> <<"new_response", question>>]
        /\ h[Len(h)] = [role |-> "assistant", content |-> <<"new_feedback", question>>]

\* C18: the microphone is held exactly while a capture is made: during the
\* command capture, the answer capture and the extension capture, and at no
\* other time (it is released once listen() has returned or raised).
C18_MicrophoneHeldDuringCapture ==
    mic_held <=> (cmd_pc = "listen" \/ lfs_pc \in {"listen", "more_listen"})

\* C19: the step that takes the captured answer changes the speaking time
\* only when the utterance is a substantive answer; an empty utterance and a
\* skip-, finish- or repeat-class command leave it unchanged, and no other
\* step of a session changes it.
C19_OnlySubstantiveAccumulates ==
    [][speaking_time' # speaking_time =>
          \/ pc = "main"
          \/ /\ pc = "answer" /\ lfs_pc = "done"
             /\ AnswerClass(user_response') = "answer"]_vars

\* C20: once the feedback on an answer has been spoken, the command menu is
\* entered (a command is solicited) when a question of the list is still to
\* come; after the last question no command is solicited, the loop is at its
\* head with the list exhausted, and its next step is the statistics.
C20_MenuExceptAfterLastQuestion ==
    /\ [][(pc = "feedback" /\ pc' # "crashed") =>
             IF q_iter < Len(questions)
             THEN pc' = "menu" /\ cmd_pc' = "listen"
             ELSE pc' = "for" /\ cmd_pc' = "idle"]_vars
    /\ [][(pc = "for" /\ q_iter >= Len(questions)) => pc' = "stats"]_vars
    /\ [][(pc' = "menu" /\ cmd_pc' = "listen") => q_iter < Len(questions)]_vars

\* feedback was given on the last question and the statistics follow, no
\* command having been solicited
C20_Witness ==
    /\ pc = "stats"
    /\ last_answer = [q |-> Len(questions), cls |-> "answer"]
    /\ q_iter = Len(questions)
    /\ cmd_pc = "idle"

\* C21: every chunk split_text_for_tts returns has length at most max_length,
\* and a text no longer than max_length is returned unchanged as the single
\* chunk.
C21_ChunksWithinCeiling ==
    tts_pc = "returned" =>
        /\ \A i \in DOMAIN chunks : Len(chunks[i]) <= max_length
        /\ Len(tts_text) <= max_length => chunks = <<tts_text>>

\* C22: show_practice_stats never divides by a session duration of zero.
C22_NoDivisionByZeroDuration == stats_divisor # 0

\* a session whose statistics showed the speaking percentage
C22_Witness ==
    /\ pc = "main_menu"
    /\ stats_shown = 1
    /\ stats_divisor > 0
    /\ speaking_time > 0

\* a step of listen_for_speech in which the extension capture of lines
\* 373-374 fails with WaitTimeoutError or UnknownValueError
ExtensionFails ==
    lfs_pc \in {"more_listen", "more_recognize"} /\ lfs_fails' = lfs_fails + 1

\* C23: a no-match or timeout failure of the extension capture is counted
\* against the retry budget of the call like a failed first capture; the
\* call then restarts a full capture or, the budget spent, asks for typed
\* text; nothing is returned by the failing step, so the short transcript
\* is never returned alone after a failed extension.
C23_FailedExtensionCountsAsFailure ==
    /\ [][ExtensionFails =>
            (/\ retry_count' = retry_count + 1
             /\ lfs_pc' = (IF retry_count + 1 < max_retries THEN "loop" ELSE "type")
             /\ lfs_result' = <<>>)]_vars
    /\ [][(lfs_pc # "done" /\ lfs_pc' = "done") =>
            (/\ lfs_pc \in {"recognize", "short", "more_recognize", "type"}
             /\ lfs_fails' = lfs_fails
             /\ (lfs_pc = "more_recognize" => lfs_result' # text))]_vars
    /\ [](lfs_pc # "idle" => (retry_count = lfs_fails /\ retry_count <= max_retries))

\* the extension of the first capture has failed and the loop starts a
\* second full capture
C23_Witness ==
    /\ lfs_pc = "loop"
    /\ lfs_attempts = 1
    /\ lfs_ext = 1
    /\ lfs_fails = 1
    /\ retry_count = 1
    /\ IsShort(text)

\* C24: practice_conversation treats an answer as a control command only
\* when the whole lower-cased utterance equals a listed phrase; an utterance
\* that merely contains one ('next question please') is a substantive answer
\* and gets feedback, whereas listen_for_command classifies the same words
\* as 'next' by substring.
C24_AnswerCommandsMatchWhole ==
    /\ [][(pc = "answer" /\ lfs_pc = "done" /\ lfs_pc' = "idle") =>
            LET u == Lower(user_response') IN
            /\ (pc' = "stats") <=> (u \in FinishPhrases)
            /\ (pc' = "feedback") <=>
                   (u # <<>> /\ u \notin SkipPhrases \cup FinishPhrases \cup RepeatPhrases)
            /\ (u = T_next_question_please) => (pc' = "feedback")]_vars
    /\ []((cmd_pc = "done" /\ heard = T_next_question_please) => command = "next")

\* 'next question please' given as an answer is about to get feedback
C24_Witness ==
    /\ pc = "feedback"
    /\ user_response = T_next_question_please
    /\ last_answer.cls = "answer"

\* C25: a skip or finish phrase given as the new answer of the repeat
\* transition gets no feedback and does not end the session: the menu is
\* left and the for loop goes on with the following question; the
\* statistics are reached only from a first answer or from the exhausted
\* list.
C25_StopWordInRepeatOnlyLeavesMenu ==
    /\ [][(pc = "again" /\ lfs_pc = "done" /\ lfs_pc' = "idle"
              /\ Lower(new_response') \in SkipPhrases \cup FinishPhrases) =>
            (/\ pc' = "press_enter"
             /\ feedback' = ""
             /\ conversation_history' = conversation_history)]_vars
    /\ [][(pc = "press_enter") =>
            (/\ pc' = "for"
             /\ q_iter' = q_iter
             /\ q_iter < Len(questions)
             /\ stats_shown' = stats_shown)]_vars
    /\ [][(pc # "stats" /\ pc' = "stats") =>
            (pc = "answer" \/ (pc = "for" /\ q_iter >= Len(questions)))]_vars

\* 'Finish' was typed as the new answer of a repeat; the session goes on
C25_Witness ==
    /\ pc = "press_enter"
    /\ Lower(new_response) \in FinishPhrases
    /\ feedback = ""
    /\ stats_shown = 0

\* C26: no step of the post-feedback menu changes the cumulative speaking
\* time; it changes only in the step that takes the first capture of a
\* question.
C26_MenuLeavesSpeakingTime ==
    /\ [][InMenu => (speaking_time' = speaking_time)]_vars
    /\ [][(speaking_time' # speaking_time) => (pc = "answer" /\ lfs_pc = "done")]_vars

\* the new answer of a repeat took time to capture and the accumulator still
\* holds nothing
C26_Witness ==
    /\ pc \in {"new_feedback", "press_enter"}
    /\ new_response # <<>>
    /\ Elapsed(now, speaking_start) > 0
    /\ speaking_time = 0

\* C27: conversation_history changes only in the step of the repeat
\* transition that has processed a new answer, which appends one user entry
\* followed by one assistant entry; so its length is always even and it
\* never shrinks.
C27_HistoryGrowsOnlyByAttemptPairs ==
    /\ [][(conversation_history' # conversation_history) =>
            LET n == Len(conversation_history) IN
            /\ pc = "new_feedback"
            /\ ProcessNew(new_response)
            /\ Len(conversation_history') = n + 2
            /\ SubSeq(conversation_history', 1, n) = conversation_history
            /\ conversation_history'[n + 1].role = "user"
            /\ conversation_history'[n + 2].role = "assistant"]_vars
    /\ [][(pc = "new_feedback" /\ pc' = "press_enter") =>
            (Len(conversation_history') = Len(conversation_history) + 2)]_vars
    /\ [](Len(conversation_history) % 2 = 0)

\* a processed new answer and its feedback are in the history
C27_Witness ==
    /\ pc = "press_enter"
    /\ ProcessNew(new_response)
    /\ Len(conversation_history) = 2
    /\ conversation_history[1].role = "user"
    /\ conversation_history[2].role = "assistant"
====
